---- MODULE Spec2Model ----
(***************************************************************************)
(* The 7-bit ASCII codec of rust-encoding (src/codec/ascii.rs): the        *)
(* encoder and decoder sessions, their raw_feed / raw_finish operations,   *)
(* and the two scanning paths behind raw_feed: the scalar slow_raw_feed    *)
(* and the SSE2 loop over 16-byte chunks.                                  *)
(*                                                                         *)
(* A byte is an integer 0..255, a character a Unicode scalar value, a      *)
(* slice a sequence (the Rust offset k is the TLA+ index k + 1), and       *)
(* Option<T> a sequence of length 0 (None) or 1 (Some).                    *)
(***************************************************************************)
EXTENDS Integers, Sequences, FiniteSets

\* ------------------------------------------------------------------------
\* Bounds of the model
\* ------------------------------------------------------------------------

\* longest input (in units) of a single feed call with one invalid unit
MaxLong == 64
\* longest input (in units) of a single feed call with two invalid units
MaxLen == 20
\* longest stream (in units) of a session that feeds it in two chunks
MaxPair == 17
\* longest stream (in units) of a session that feeds it in three chunks
MaxTriple == 6
\* largest distance between the two invalid units of a chunked stream
MaxGap == 1
\* number of raw_finish calls a session may make
MaxFinish == 1

\* ------------------------------------------------------------------------
\* Program constants
\* ------------------------------------------------------------------------

CHUNK_SIZE == 16

\* ------------------------------------------------------------------------
\* State
\* ------------------------------------------------------------------------

VARIABLES
    kind,         \* "encoder" (ASCIIEncoder) or "decoder" (ASCIIDecoder)
    simd,         \* TRUE iff the build selects the SSE2 raw_feed
    stream,       \* the bytes of everything the caller means to feed
    pending,      \* the chunks the caller has not fed yet
    pc,           \* "idle", or "scan" while a raw_feed call is running
    text,         \* encoder: the characters of the &str being fed
    input,        \* the byte slice raw_feed scans
    total,        \* the local total of the SSE2 raw_feed
    sofar,        \* the local sofar of the SSE2 raw_feed
    first_error,  \* what raw_feed returned last
    output,       \* the sink: every byte written so far
    result,       \* what the last raw_feed of the session returned
    finres,       \* what the last raw_finish of the session returned
    lastop,       \* "new", "feed" or "finish": the last call that returned
    nfinish,      \* raw_finish calls made
    sink0,        \* the sink as the running (or last) call found it
    writes,       \* the slices the running (or last) raw_feed wrote, in order
    iters,        \* chunk loads of the running (or last) raw_feed
    slowStart,    \* the offset it passed to slow_raw_feed, -1 before that
    expect,       \* input[..consumed] of every raw_feed so far, concatenated
    sumConsumed,  \* the consumed counts returned so far, added up
    nerrs,        \* raw_feed calls so far that returned an error
    errsBefore    \* nerrs when the running (or last) raw_feed was called

vars == <<kind, simd, stream, pending, pc, text, input, total, sofar,
          first_error, output, result, finres, lastop, nfinish, sink0,
          writes, iters, slowStart, expect, sumConsumed, nerrs, errsBefore>>

\* ------------------------------------------------------------------------
\* Library functions the code calls
\* ------------------------------------------------------------------------

\* char::encode_utf8, as str::as_bytes exposes it
encode_utf8(c) ==
    IF c < 128 THEN <<c>>
    ELSE IF c < 2048 THEN <<192 + (c \div 64), 128 + (c % 64)>>
    ELSE IF c < 65536 THEN
        <<224 + (c \div 4096), 128 + ((c \div 64) % 64), 128 + (c % 64)>>
    ELSE <<240 + (c \div 262144), 128 + ((c \div 4096) % 64),
           128 + ((c \div 64) % 64), 128 + (c % 64)>>

RECURSIVE as_bytes(_)
\* str::as_bytes: the UTF-8 bytes of a text, its characters' encodings in
\* order (put together half by half)
as_bytes(str) ==
    IF str = <<>> THEN <<>>
    ELSE IF Len(str) = 1 THEN encode_utf8(str[1])
    ELSE as_bytes(SubSeq(str, 1, Len(str) \div 2))
         \o as_bytes(SubSeq(str, Len(str) \div 2 + 1, Len(str)))

\* s[from..]
SliceFrom(s, from) == SubSeq(s, from + 1, Len(s))

\* s[..to]
SliceTo(s, to) == SubSeq(s, 1, to)

\* the byte at index i of b, 0 past its end (core::str::next_code_point
\* reads the bytes after the first one with unwrap_or_0)
ByteOr0(b, i) == IF i <= Len(b) THEN b[i] ELSE 0

\* str::chars().next() on a non-empty UTF-8 slice: decodes the first character
next_char(b) ==
    IF b[1] < 128 THEN b[1]
    ELSE IF b[1] < 224 THEN (b[1] % 32) * 64 + (ByteOr0(b, 2) % 64)
    ELSE IF b[1] < 240 THEN
        (b[1] % 16) * 4096 + (ByteOr0(b, 2) % 64) * 64 + (ByteOr0(b, 3) % 64)
    ELSE (b[1] % 8) * 262144 + (ByteOr0(b, 2) % 64) * 4096
         + (ByteOr0(b, 3) % 64) * 64 + (ByteOr0(b, 4) % 64)

\* a width of one unit whatever the character is
len_utf8_one(c) == 1

\* char::len_utf8
len_utf8(c) ==
    IF c < 128 THEN 1
    ELSE IF c < 2048 THEN 2
    ELSE IF c < 65536 THEN 3
    ELSE 4

\* write_bytes that replaces what the sink holds
write_bytes_replace(out, bytes) == bytes

\* ByteWriter::write_bytes: appends to the sink
write_bytes(out, bytes) == out \o bytes

\* u8x16::load(input, sofar): the 16 lanes input[sofar .. sofar + 16]
load(inp, at) == SubSeq(inp, at + 1, at + CHUNK_SIZE)

RECURSIVE MaskFrom(_, _)
\* bit (lane - 1) is set iff the lane's high bit is set, for lanes lane..16
MaskFrom(v, lane) ==
    IF lane > Len(v) THEN 0
    ELSE (IF v[lane] >= 128 THEN 2 ^ (lane - 1) ELSE 0) + MaskFrom(v, lane + 1)

RECURSIVE MaskFromRev(_, _)
MaskFromRev(v, lane) ==
    IF lane > Len(v) THEN 0
    ELSE (IF v[lane] >= 128 THEN 2 ^ (Len(v) - lane) ELSE 0)
         + MaskFromRev(v, lane + 1)

\* a movemask that packs the lanes in the reverse order
movemask_rev(v) == MaskFromRev(v, 1)

\* Movemask::movemask: one bit per lane, lane 0 in bit 0
movemask(v) == MaskFrom(v, 1)

RECURSIVE trailing_zeros(_)
\* u16::trailing_zeros of (mask as u16)
trailing_zeros(m) ==
    IF m % 65536 = 0 THEN 16
    ELSE IF m % 2 = 1 THEN 0
    ELSE 1 + trailing_zeros((m % 65536) \div 2)

\* Iterator::position(|&ch| ch >= 0x80): Some(k) for the first offset k the
\* predicate holds at, None when the iterator ends without one
position(s) ==
    IF \A i \in 1..Len(s) : ~(s[i] >= 128) THEN <<>>
    ELSE <<(CHOOSE i \in 1..Len(s) :
               /\ s[i] >= 128
               /\ \A j \in 1..(i - 1) : ~(s[j] >= 128)) - 1>>

\* ------------------------------------------------------------------------
\* The scanning functions
\* ------------------------------------------------------------------------

\* a slow_raw_feed that also writes the offending byte
slow_raw_feed_incl(inp, from) ==
    LET p == position(SliceFrom(inp, from))
        ret == IF p # <<>> THEN from + p[1] ELSE Len(inp)
    IN  [ret |-> ret,
         written |-> SliceTo(inp, IF ret < Len(inp) THEN ret + 1 ELSE ret)]

\* slow_raw_feed(input, output, sofar): the offset it returns and the slice
\* it hands to output.write_bytes
slow_raw_feed(inp, from) ==
    LET p == position(SliceFrom(inp, from))
        ret == IF p # <<>> THEN from + p[1] ELSE Len(inp)
    IN  [ret |-> ret, written |-> SliceTo(inp, ret)]

\* a total that is not rounded down to whole chunks
chunked_total_len(inp) == Len(inp)

\* let total = input.len() / CHUNK_SIZE * CHUNK_SIZE
chunked_total(inp) == (Len(inp) \div CHUNK_SIZE) * CHUNK_SIZE

\* let mask = u8x16::load(input, sofar).movemask()
chunk_mask(inp, at) == movemask(load(inp, at))

RECURSIVE simd_loop(_, _, _)
\* the while loop of the SSE2 raw_feed and the call that follows it
simd_loop(inp, tot, at) ==
    IF at # tot THEN
        IF chunk_mask(inp, at) = 0 THEN simd_loop(inp, tot, at + CHUNK_SIZE)
        ELSE LET s == at + trailing_zeros(chunk_mask(inp, at))
             IN  [ret |-> s, written |-> SliceTo(inp, s)]
    ELSE slow_raw_feed(inp, at)

\* raw_feed as built with enable-simd on an SSE2 target
simd_raw_feed(inp) == simd_loop(inp, chunked_total(inp), 0)

\* a scalar raw_feed that resumes at the offset the previous call returned
scalar_raw_feed_stale(inp) ==
    slow_raw_feed(inp, IF first_error < Len(inp) THEN first_error ELSE Len(inp))

\* raw_feed as built without the vector feature
scalar_raw_feed(inp) == slow_raw_feed(inp, 0)

\* raw_feed of the build: the cfg attributes keep exactly one of the two
raw_feed(vector, inp) ==
    IF vector THEN simd_raw_feed(inp) ELSE scalar_raw_feed(inp)

\* ------------------------------------------------------------------------
\* The results of ASCIIEncoder::raw_feed and ASCIIDecoder::raw_feed
\* ------------------------------------------------------------------------

\* the match of ASCIIEncoder::raw_feed on what raw_feed returned
encoder_result(fe, inp) ==
    IF fe < Len(inp) THEN
        LET len == len_utf8(next_char(SliceFrom(inp, fe)))
        IN  [consumed |-> fe,
             error |-> <<[upto |-> fe + len,
                          cause |-> "unrepresentable character"]>>]
    ELSE [consumed |-> fe, error |-> <<>>]

\* a decoder match whose guard admits first_error = input.len()
decoder_result_le(fe, inp) ==
    IF fe <= Len(inp) THEN
        [consumed |-> fe,
         error |-> <<[upto |-> fe + 1, cause |-> "invalid sequence"]>>]
    ELSE [consumed |-> fe, error |-> <<>>]

\* a decoder match whose upto is the offset of the offending byte
decoder_result_upto(fe, inp) ==
    IF fe < Len(inp) THEN
        [consumed |-> fe,
         error |-> <<[upto |-> fe, cause |-> "invalid sequence"]>>]
    ELSE [consumed |-> fe, error |-> <<>>]

\* the match of ASCIIDecoder::raw_feed on what raw_feed returned
decoder_result(fe, inp) ==
    IF fe < Len(inp) THEN
        [consumed |-> fe,
         error |-> <<[upto |-> fe + 1, cause |-> "invalid sequence"]>>]
    ELSE [consumed |-> fe, error |-> <<>>]

\* a raw_finish that reports a truncated stream
encoder_raw_finish_err(out) ==
    [output |-> out,
     error |-> <<[upto |-> 0, cause |-> "incomplete sequence"]>>]

\* ASCIIEncoder::raw_finish: the sink it leaves and the error it returns
encoder_raw_finish(out) == [output |-> out, error |-> <<>>]

\* ASCIIDecoder::raw_finish
decoder_raw_finish(out) == [output |-> out, error |-> <<>>]


\* ------------------------------------------------------------------------
\* The inputs a caller feeds
\* ------------------------------------------------------------------------

\* characters above 0x7F of every UTF-8 width, at the edges of each width
BadChars == <<128, 160, 2047, 2048, 65535, 65536, 1114111>>

\* bytes with the top bit set
BadBytes == <<128, 160, 195, 255>>

\* the valid unit at offset i: runs through 0x7F and 0x00
Fill(i) == (112 + i) % 128

\* the invalid unit at offset i
Bad(k, i) ==
    IF k = "encoder" THEN BadChars[(i % Len(BadChars)) + 1]
    ELSE BadBytes[(i % Len(BadBytes)) + 1]

\* n units, invalid at the offsets p and q (an offset of n: no such unit)
Units(k, n, p, q) ==
    [i \in 1..n |-> IF i - 1 \in {p, q} THEN Bad(k, i - 1) ELSE Fill(i - 1)]

\* the bytes raw_feed sees for a chunk of units
BytesOf(k, units) == IF k = "encoder" THEN as_bytes(units) ELSE units

Min(a, b) == IF a < b THEN a ELSE b

\* one feed call: up to MaxLong units with at most one invalid unit, at any
\* offset, or up to MaxLen units with two invalid units at any offsets
ScanPlans(k) ==
    UNION { { <<Units(k, n, p, n)>> : p \in 0..n } : n \in 0..MaxLong }
    \cup
    UNION { UNION { { <<Units(k, n, p, q)>> : q \in p..n } : p \in 0..n }
            : n \in 0..MaxLen }

\* a stream of n units with invalid units at p and at most MaxGap further on
Streams(k, n) ==
    UNION { { Units(k, n, p, Min(p + g, n)) : g \in 0..MaxGap } : p \in 0..n }

\* a stream of up to MaxPair units cut at c into two chunks
PairPlans(k) ==
    UNION { UNION {
        { <<SubSeq(s, 1, c), SubSeq(s, c + 1, n)>> : c \in 0..n }
        : s \in Streams(k, n) } : n \in 0..MaxPair }

\* a stream of up to MaxTriple units cut at c1 <= c2 into three chunks
TriplePlans(k) ==
    UNION { UNION { UNION {
        { <<SubSeq(s, 1, c1), SubSeq(s, c1 + 1, c2), SubSeq(s, c2 + 1, n)>>
          : c2 \in c1..n }
        : c1 \in 0..n } : s \in Streams(k, n) } : n \in 0..MaxTriple }

Plans(k) == ScanPlans(k) \cup PairPlans(k) \cup TriplePlans(k)

RECURSIVE Concat(_)
Concat(chunks) ==
    IF chunks = <<>> THEN <<>> ELSE Head(chunks) \o Concat(Tail(chunks))

\* ------------------------------------------------------------------------
\* Init: a fresh session (ASCIIEncoder::new / ASCIIDecoder::new), an empty
\* sink, and the chunks its caller is going to feed
\* ------------------------------------------------------------------------

Init ==
    /\ kind \in {"encoder", "decoder"}
    /\ simd \in BOOLEAN
    /\ pending \in Plans(kind)
    /\ stream = BytesOf(kind, Concat(pending))
    /\ pc = "idle"
    /\ text = <<>>
    /\ input = <<>>
    /\ total = 0
    /\ sofar = 0
    /\ first_error = 0
    /\ output = <<>>
    /\ result = [consumed |-> 0, error |-> <<>>]
    /\ finres = <<>>
    /\ lastop = "new"
    /\ nfinish = 0
    /\ sink0 = <<>>
    /\ writes = <<>>
    /\ iters = 0
    /\ slowStart = -1
    /\ expect = <<>>
    /\ sumConsumed = 0
    /\ nerrs = 0
    /\ errsBefore = 0

\* ------------------------------------------------------------------------
\* Actions
\* ------------------------------------------------------------------------

\* what every entry into raw_feed does: the locals of the SSE2 build are
\* set up (total, sofar = 0); the scalar build has none
EnterRawFeed(bytes) ==
    /\ pc' = "scan"
    /\ input' = bytes
    /\ total' = IF simd THEN chunked_total(bytes) ELSE 0
    /\ sofar' = 0
    /\ pending' = Tail(pending)
    /\ sink0' = output
    /\ writes' = <<>>
    /\ iters' = 0
    /\ slowStart' = -1
    /\ errsBefore' = nerrs
    /\ UNCHANGED <<kind, simd, stream, first_error, output, result, finres,
                   lastop, nfinish, expect, sumConsumed, nerrs>>

\* ASCIIEncoder::raw_feed is called with the next chunk: writer_hint (no
\* effect on the sink's contents), then raw_feed(input.as_bytes(), output)
EncoderRawFeed ==
    /\ kind = "encoder"
    /\ pc = "idle"
    /\ pending # <<>>
    /\ text' = Head(pending)
    /\ EnterRawFeed(as_bytes(Head(pending)))

\* ASCIIDecoder::raw_feed is called with the next chunk
DecoderRawFeed ==
    /\ kind = "decoder"
    /\ pc = "idle"
    /\ pending # <<>>
    /\ text' = <<>>
    /\ EnterRawFeed(Head(pending))

\* raw_feed returns r.ret having written r.written; the caller's match turns
\* it into (consumed, error) and the call returns
Return(r) ==
    LET res == IF kind = "encoder" THEN encoder_result(r.ret, input)
               ELSE decoder_result(r.ret, input)
    IN  /\ first_error' = r.ret
        /\ output' = write_bytes(output, r.written)
        /\ writes' = Append(writes, r.written)
        /\ result' = res
        /\ pc' = "idle"
        /\ lastop' = "feed"
        /\ expect' = expect \o SliceTo(input, res.consumed)
        /\ sumConsumed' = sumConsumed + res.consumed
        /\ nerrs' = nerrs + (IF res.error # <<>> THEN 1 ELSE 0)
        /\ UNCHANGED <<kind, simd, stream, pending, text, input, total,
                       finres, nfinish, sink0, errsBefore>>

\* the scalar build's raw_feed: slow_raw_feed(input, output, 0)
ScalarRawFeed ==
    /\ pc = "scan"
    /\ ~simd
    /\ slowStart' = 0
    /\ Return(scalar_raw_feed(input))
    /\ UNCHANGED <<sofar, iters>>

\* an iteration that flushes each valid chunk to the sink as it goes
SimdChunkValidFlush ==
    /\ pc = "scan"
    /\ simd
    /\ sofar # total
    /\ chunk_mask(input, sofar) = 0
    /\ sofar' = sofar + CHUNK_SIZE
    /\ iters' = iters + 1
    /\ output' = write_bytes(output, load(input, sofar))
    /\ writes' = Append(writes, load(input, sofar))
    /\ UNCHANGED <<kind, simd, stream, pending, pc, text, input, total,
                   first_error, result, finres, lastop, nfinish,
                   sink0, slowStart, expect, sumConsumed, nerrs,
                   errsBefore>>

\* one iteration of the SSE2 loop on a chunk with no high bit set
SimdChunkValid ==
    /\ pc = "scan"
    /\ simd
    /\ sofar # total
    /\ chunk_mask(input, sofar) = 0
    /\ sofar' = sofar + CHUNK_SIZE
    /\ iters' = iters + 1
    /\ UNCHANGED <<kind, simd, stream, pending, pc, text, input, total,
                   first_error, output, result, finres, lastop, nfinish,
                   sink0, writes, slowStart, expect, sumConsumed, nerrs,
                   errsBefore>>

\* the iteration that finds a high bit: write input[..sofar] and return
SimdChunkInvalid ==
    /\ pc = "scan"
    /\ simd
    /\ sofar # total
    /\ chunk_mask(input, sofar) # 0
    /\ sofar' = sofar + trailing_zeros(chunk_mask(input, sofar))
    /\ iters' = iters + 1
    /\ Return([ret |-> sofar', written |-> SliceTo(input, sofar')])
    /\ UNCHANGED slowStart

\* the loop is over: slow_raw_feed(input, output, sofar) scans the tail
SimdTail ==
    /\ pc = "scan"
    /\ simd
    /\ sofar = total
    /\ slowStart' = sofar
    /\ Return(slow_raw_feed(input, sofar))
    /\ UNCHANGED <<sofar, iters>>

\* raw_finish of the session's encoder or decoder
RawFinish ==
    /\ pc = "idle"
    /\ nfinish < MaxFinish
    /\ LET r == IF kind = "encoder" THEN encoder_raw_finish(output)
                ELSE decoder_raw_finish(output)
       IN  /\ output' = r.output
           /\ finres' = r.error
    /\ sink0' = output
    /\ lastop' = "finish"
    /\ nfinish' = nfinish + 1
    /\ UNCHANGED <<kind, simd, stream, pending, pc, text, input, total,
                   sofar, first_error, result, writes, iters, slowStart,
                   expect, sumConsumed, nerrs, errsBefore>>

Next ==
    \/ EncoderRawFeed
    \/ DecoderRawFeed
    \/ ScalarRawFeed
    \/ SimdChunkValid
    \/ SimdChunkInvalid
    \/ SimdTail
    \/ RawFinish

Spec == Init /\ [][Next]_vars


\* ------------------------------------------------------------------------
\* What the claims speak of
\* ------------------------------------------------------------------------

\* a feed call of the session has just returned (nothing has run since)
FeedReturned == pc = "idle" /\ lastop = "feed"

\* some unit is outside 0..0x7F
HasBad(units) == \E i \in 1..Len(units) : units[i] > 127

\* the offsets of the units outside 0..0x7F
BadOffsets(units) == { i - 1 : i \in { j \in 1..Len(units) : units[j] > 127 } }

\* the offset of the first unit outside 0..0x7F, the length if there is none
FirstBad(units) ==
    IF HasBad(units)
    THEN CHOOSE k \in BadOffsets(units) : \A m \in BadOffsets(units) : k <= m
    ELSE Len(units)

\* the units of the call's input: characters for an encoder, bytes for a decoder
CallUnits == IF kind = "encoder" THEN text ELSE input

\* the storage units the unit at offset k occupies in the call's input
UnitWidth(k) ==
    IF kind = "encoder" THEN Len(encode_utf8(text[k + 1])) ELSE 1

\* what a feed of these units returns and appends, said from the input alone
RefFeed(k, units) ==
    LET n == FirstBad(units)
    IN  [consumed |-> n,
         written |-> SliceTo(units, n),
         error |-> IF HasBad(units)
                   THEN <<[upto |-> n + (IF k = "encoder"
                                         THEN Len(encode_utf8(units[n + 1]))
                                         ELSE 1),
                           cause |-> IF k = "encoder"
                                     THEN "unrepresentable character"
                                     ELSE "invalid sequence"]>>
                   ELSE <<>>]

IsPrefix(a, b) == Len(a) <= Len(b) /\ SubSeq(b, 1, Len(a)) = a

\* ------------------------------------------------------------------------
\* The claims
\* ------------------------------------------------------------------------

\* C1: on every input the vector-path raw_feed returns the offset the
\* scalar path (slow_raw_feed from offset 0) returns, and appends to the
\* sink exactly the bytes the scalar path appends.
TheoremC1 ==
    (simd /\ FeedReturned) =>
        /\ first_error = slow_raw_feed(input, 0).ret
        /\ output = sink0 \o slow_raw_feed(input, 0).written

\* the vector path found the invalid byte at offset 17, in its second chunk
WitnessC1 ==
    /\ simd
    /\ FeedReturned
    /\ Len(input) = 33
    /\ iters = 2
    /\ first_error = CHUNK_SIZE + 1

\* C2: ASCIIEncoder::raw_feed consumes the characters before the first one
\* above 0x7F (all of them if there is none), appends exactly their byte
\* values, and returns an error exactly when there is such a character, with
\* upto = consumed + its UTF-8 width and cause "unrepresentable character".
TheoremC2 ==
    (kind = "encoder" /\ FeedReturned) =>
        /\ result.consumed = FirstBad(text)
        /\ output = sink0 \o SliceTo(text, FirstBad(text))
        /\ (result.error # <<>>) <=> HasBad(text)
        /\ HasBad(text) =>
              result.error =
                  <<[upto |-> FirstBad(text)
                              + Len(encode_utf8(text[FirstBad(text) + 1])),
                     cause |-> "unrepresentable character"]>>

\* an encoder stopped at a four-byte character after consuming some text
WitnessC2 ==
    /\ kind = "encoder"
    /\ FeedReturned
    /\ result.consumed >= 2
    /\ result.error # <<>>
    /\ result.error[1].upto = result.consumed + 4
    /\ Len(text) > result.consumed + 1

\* C3: ASCIIDecoder::raw_feed consumes the bytes before the first one
\* >= 0x80 (all of them if there is none), appends them verbatim, and returns
\* an error exactly when there is such a byte, with upto = consumed + 1 and
\* cause "invalid sequence" whatever follows.
TheoremC3 ==
    (kind = "decoder" /\ FeedReturned) =>
        /\ result.consumed = FirstBad(input)
        /\ output = sink0 \o SliceTo(input, FirstBad(input))
        /\ (result.error # <<>>) <=> HasBad(input)
        /\ HasBad(input) =>
              result.error = <<[upto |-> FirstBad(input) + 1,
                                cause |-> "invalid sequence"]>>

\* a decoder stopped at an invalid byte that another invalid byte follows
WitnessC3 ==
    /\ kind = "decoder"
    /\ FeedReturned
    /\ result.consumed >= 1
    /\ result.error # <<>>
    /\ Len(input) > result.consumed + 1
    /\ input[result.consumed + 2] > 127

\* C4: feeding a stream chunk by chunk and stopping at the first call that
\* reports an error gives the total consumed count and the sink contents
\* that one feed call on the whole stream gives.
TheoremC4 ==
    (/\ pc = "idle"
     /\ \/ nerrs = 0 /\ pending = <<>>
        \/ nerrs = 1 /\ lastop = "feed" /\ result.error # <<>>)
    => /\ sumConsumed = raw_feed(simd, stream).ret
       /\ output = raw_feed(simd, stream).written

\* the third chunk of a stream reported the first error, after units of
\* earlier chunks and of its own had been consumed
WitnessC4 ==
    /\ FeedReturned
    /\ pending = <<>>
    /\ nerrs = 1
    /\ result.error # <<>>
    /\ result.consumed >= 1
    /\ Len(sink0) >= 2
    /\ Len(stream) <= MaxTriple

\* C5: raw_finish returns None and leaves the sink as it found it, on a
\* fresh session as after any feeds.
TheoremC5 ==
    lastop = "finish" => (finres = <<>> /\ output = sink0)

\* raw_finish returned on a session whose feeds wrote bytes and reported an
\* error
WitnessC5 ==
    /\ lastop = "finish"
    /\ nerrs >= 1
    /\ Len(output) >= 1

\* C6 as stated: the offset an error carries is the offset one unit past the
\* last consumed unit, that is the offset where the offending unit starts.
OriginalC6 ==
    (FeedReturned /\ result.error # <<>>) =>
        result.error[1].upto = FirstBad(input)

\* C6 amended: consumed is the offset one unit past the last consumed unit,
\* where the offending unit starts; the offset the error carries, upto, is
\* where that unit ends: [consumed, upto) is exactly the offending unit and
\* upto - consumed is its width (1 for a byte, the UTF-8 width for a
\* character).
TheoremC6 ==
    (FeedReturned /\ result.error # <<>>) =>
        /\ result.consumed = FirstBad(input)
        /\ result.error[1].upto - result.consumed = UnitWidth(result.consumed)
        /\ result.error[1].upto <= Len(input)
        /\ SubSeq(input, result.consumed + 1, result.error[1].upto)
             = (IF kind = "encoder"
                THEN encode_utf8(text[result.consumed + 1])
                ELSE <<input[result.consumed + 1]>>)
        /\ CallUnits[result.consumed + 1] > 127

\* an encoder's error on a three-byte character
WitnessC6 ==
    /\ kind = "encoder"
    /\ FeedReturned
    /\ result.error # <<>>
    /\ result.error[1].upto = result.consumed + 3

\* C7: the sink always holds input[..consumed] of every feed so far, in call
\* order; what a call found in the sink stays there; only units below 0x80
\* are in it; its length is the sum of the consumed counts returned.
TheoremC7 ==
    /\ output = expect
    /\ IsPrefix(sink0, output)
    /\ \A i \in 1..Len(output) : output[i] < 128
    /\ Len(output) = sumConsumed

\* a feed appended to a sink that held bytes, after a raw_finish and an error
WitnessC7 ==
    /\ FeedReturned
    /\ nfinish = 1
    /\ errsBefore >= 1
    /\ Len(sink0) >= 1
    /\ Len(output) > Len(sink0)

\* C8: a feed made after a feed that returned an error returns and appends
\* what its input alone determines, as on a fresh session.
TheoremC8 ==
    (FeedReturned /\ errsBefore >= 1) =>
        /\ result.consumed = RefFeed(kind, CallUnits).consumed
        /\ result.error = RefFeed(kind, CallUnits).error
        /\ output = sink0 \o RefFeed(kind, CallUnits).written

\* after an error at a later offset, a feed whose first unit is invalid
WitnessC8 ==
    /\ FeedReturned
    /\ errsBefore >= 1
    /\ result.error # <<>>
    /\ result.consumed = 0
    /\ Len(sink0) >= 1

\* C9: a raw_feed call appends nothing while it scans, and by the time it
\* returns it has appended once, the whole prefix input[..result].
TheoremC9 ==
    /\ pc = "scan" => (writes = <<>> /\ output = sink0)
    /\ FeedReturned =>
          /\ writes = <<SliceTo(input, first_error)>>
          /\ output = sink0 \o SliceTo(input, first_error)

\* the vector path went over two valid chunks and wrote all 33 bytes at once
WitnessC9 ==
    /\ simd
    /\ FeedReturned
    /\ iters = 2
    /\ Len(writes) = 1
    /\ Len(writes[1]) = 2 * CHUNK_SIZE + 1

\* C10: in the vector loop every chunk load is at a multiple of CHUNK_SIZE
\* with the whole chunk inside the input, there are at most
\* floor(len / CHUNK_SIZE) loads, and slow_raw_feed is entered at
\* floor(len / CHUNK_SIZE) * CHUNK_SIZE, less than a chunk before the end.
TheoremC10 ==
    simd =>
        /\ (pc = "scan" /\ sofar # total) =>
              /\ sofar % CHUNK_SIZE = 0
              /\ sofar + CHUNK_SIZE <= Len(input)
        /\ iters <= Len(input) \div CHUNK_SIZE
        /\ slowStart # -1 =>
              /\ slowStart = (Len(input) \div CHUNK_SIZE) * CHUNK_SIZE
              /\ Len(input) - slowStart < CHUNK_SIZE

\* the loop is about to load its second chunk
WitnessC10 ==
    /\ simd
    /\ pc = "scan"
    /\ sofar = CHUNK_SIZE
    /\ total = 2 * CHUNK_SIZE
    /\ Len(input) > total

====
